---------------------------- MODULE Spec2Model ----------------------------
(***************************************************************************)
(* Model of the desktop shell in gui/src-tauri/src/main.rs: the shell      *)
(* spawns the background service (aetherd), keeps its handle in            *)
(* CoreProcess(Mutex<Option<Child>>), and drives one window from the tray, *)
(* from window events and from the single-instance activation callback.    *)
(*                                                                         *)
(* One launch of the executable is one index of Launches.  The handlers of *)
(* one process run on its event loop, one at a time; the quit handler is   *)
(* split at its lock/unlock points, and no other handler of the same       *)
(* process runs while pc is inside it.                                     *)
(***************************************************************************)
EXTENDS Integers, Sequences, FiniteSets, TLC

\* ------------------------------------------------------------------ bounds
NumLaunches == 2
MaxTerminateCalls == 3

Launches == 1..NumLaunches

\* --------------------------------------------------------------- constants
PathPlain == "bin/aetherd"
PathExe == "bin/aetherd.exe"
Candidates == {PathPlain, PathExe}
ServiceArgs == <<"--api", "127.0.0.1:9880">>
ResolveDiag == "failed to resolve aetherd binary"
SpawnDiag == "failed to start aetherd"
UnwrapDiag == "called Result::unwrap() on an Err value"
NoDiag == ""
\* exit statuses: std::process::exit(0), a panic's non-zero status, none yet
ExitOk == "0"
ExitPanic == "panic"
NoExit == "none"

NoWindow == [exists |-> FALSE, visible |-> FALSE, minimized |-> FALSE, focused |-> FALSE]

VARIABLES
    resources,  \* the candidate resource paths that resolve in this installation
    lockOwner,  \* launch holding the single-instance lock, 0 when free
    forwarded,  \* invocations forwarded to the primary and not yet delivered
    pc,         \* position of each launch
    core,       \* CoreProcess: the stored Option<Child>, "None" or "Some"
    guard,      \* TRUE while the MutexGuard of CoreProcess is alive
    child,      \* the quit handler's local child (the taken handle)
    service,    \* the OS process spawned by this launch
    cmdline,    \* program and arguments of the spawn attempt, <<>> before it
    spawns,     \* spawn attempts made by this launch
    kills,      \* Child::kill calls made by this launch
    killErrs,   \* Child::kill results that were Err and were discarded
    terminated, \* completed take-and-kill runs of this launch
    window,     \* the window labelled "main" of this launch
    lastEvent,  \* the last event dispatched to this launch's handlers
    exitCode,   \* exit status of the process, NoExit while it runs
    diag,       \* the panic message printed when the process aborted
    scenario,   \* history: the steps of this launch so far, while they follow Scenario
    hookPc,     \* position of a second context running the take-and-kill block
    hookChild   \* what that context read from CoreProcess

vars == <<resources, lockOwner, forwarded, pc, core, guard, child, service,
          cmdline, spawns, kills, killErrs, terminated, window, lastEvent,
          exitCode, diag, scenario, hookPc, hookChild>>

procVars == <<core, guard, child, service, cmdline, spawns, kills, killErrs,
              terminated>>

hookVars == <<hookPc, hookChild>>

\* ----------------------------------------------------------- window model
Show(w) == [w EXCEPT !.visible = TRUE]

Unminimize(w) == [w EXCEPT !.minimized = FALSE]

SetFocus(w) == [w EXCEPT !.focused = TRUE]

Hide(w) == [w EXCEPT !.visible = FALSE, !.focused = FALSE]

\* The window "main" as run() presents it once setup has returned Ok; the
\* bundled configuration says whether it starts visible (v).
InitialWindow(v) ==
    [exists |-> TRUE, visible |-> v, minimized |-> FALSE, focused |-> v]

\* Result<()> of a sequence of window commands: all Ok, or one of them Err.
CmdResults == {"ok", "err"}

\* ------------------------------------------------------------ process end
\* The process of launch i ends: its window goes with it, and the
\* single-instance lock and the undelivered invocations go if it held them.
EndProcess(i, how, code, msg, ev) ==
    /\ pc' = [pc EXCEPT ![i] = how]
    /\ exitCode' = [exitCode EXCEPT ![i] = code]
    /\ diag' = [diag EXCEPT ![i] = msg]
    /\ lastEvent' = [lastEvent EXCEPT ![i] = ev]
    /\ window' = [window EXCEPT ![i] = NoWindow]
    /\ lockOwner' = IF lockOwner = i THEN 0 ELSE lockOwner
    /\ forwarded' = IF lockOwner = i THEN 0 ELSE forwarded

\* A panic (expect / unwrap) on the main thread: the process dies with the
\* message; nothing kills the Child, whose Drop does not kill.
Panic(i, msg, ev) ==
    /\ EndProcess(i, "aborted", ExitPanic, msg, ev)
    /\ UNCHANGED <<resources, procVars>>

\* ------------------------------------------------------------------- Init
Init ==
    /\ resources \in SUBSET Candidates
    /\ lockOwner = 0
    /\ forwarded = 0
    /\ pc = [i \in Launches |-> "off"]
    /\ core = [i \in Launches |-> "None"]
    /\ guard = [i \in Launches |-> FALSE]
    /\ child = [i \in Launches |-> "None"]
    /\ service = [i \in Launches |-> "none"]
    /\ cmdline = [i \in Launches |-> <<>>]
    /\ spawns = [i \in Launches |-> 0]
    /\ kills = [i \in Launches |-> 0]
    /\ killErrs = [i \in Launches |-> 0]
    /\ terminated = [i \in Launches |-> 0]
    /\ window = [i \in Launches |-> NoWindow]
    /\ lastEvent = [i \in Launches |-> "none"]
    /\ exitCode = [i \in Launches |-> NoExit]
    /\ diag = [i \in Launches |-> NoDiag]
    /\ scenario = [i \in Launches |-> <<>>]
    /\ hookPc = [i \in Launches |-> "idle"]
    /\ hookChild = [i \in Launches |-> "None"]


\* ----------------------------------------------------------------- launch
\* Launches are numbered in the order in which they happen.
NextToLaunch(i) ==
    /\ pc[i] = "off"
    /\ \A j \in Launches : j < i => pc[j] # "off"

\* The first process to take the single-instance lock is the primary: the
\* builder registers the callback, manages CoreProcess(None) and goes on to
\* setup.
LaunchPrimary(i) ==
    /\ NextToLaunch(i)
    /\ lockOwner = 0
    /\ lockOwner' = i
    /\ pc' = [pc EXCEPT ![i] = "init"]
    /\ core' = [core EXCEPT ![i] = "None"]
    /\ UNCHANGED <<resources, forwarded, guard, child, service, cmdline, spawns,
                   kills, killErrs, terminated, window, lastEvent, exitCode, diag>>

\* A launch that finds the lock held hands its (argv, cwd) to the primary
\* and exits inside the plugin, before manage and setup.
LaunchSecondary(i) ==
    /\ NextToLaunch(i)
    /\ lockOwner # 0
    /\ forwarded' = forwarded + 1
    /\ pc' = [pc EXCEPT ![i] = "exited"]
    /\ exitCode' = [exitCode EXCEPT ![i] = ExitOk]
    /\ UNCHANGED <<resources, lockOwner, procVars, window, lastEvent, diag>>

\* ------------------------------------------------------------------ setup
\* Variant of ResolveCore: the candidates are probed in the other order.
ResolveCore_ExeFirst(res) ==
    IF PathExe \in res THEN PathExe
    ELSE IF PathPlain \in res THEN PathPlain
    ELSE "none"

\* resolve_resource("bin/aetherd").or_else(|| resolve_resource("bin/aetherd.exe"))
ResolveCore(res) ==
    IF PathPlain \in res THEN PathPlain
    ELSE IF PathExe \in res THEN PathExe
    ELSE "none"

\* .expect("failed to resolve aetherd binary") on None
SetupResolveFail(i) ==
    /\ pc[i] = "init"
    /\ ResolveCore(resources) = "none"
    /\ Panic(i, ResolveDiag, lastEvent[i])

\* Variant of SetupSpawnFail: the Err of spawn is dropped (if let Ok) and
\* setup returns Ok(()) with nothing stored.
SetupSpawnFail_Continues(i) ==
    /\ pc[i] = "init"
    /\ ResolveCore(resources) # "none"
    /\ cmdline' = [cmdline EXCEPT ![i] = <<ResolveCore(resources)>> \o ServiceArgs]
    /\ spawns' = [spawns EXCEPT ![i] = @ + 1]
    /\ pc' = [pc EXCEPT ![i] = "running"]
    /\ \E v \in BOOLEAN : window' = [window EXCEPT ![i] = InitialWindow(v)]
    /\ UNCHANGED <<resources, lockOwner, forwarded, core, guard, child, service, kills,
                   killErrs, terminated, lastEvent, exitCode, diag>>

\* cmd.spawn() returns Err: .expect("failed to start aetherd")
SetupSpawnFail(i) ==
    /\ pc[i] = "init"
    /\ ResolveCore(resources) # "none"
    /\ cmdline' = [cmdline EXCEPT ![i] = <<ResolveCore(resources)>> \o ServiceArgs]
    /\ spawns' = [spawns EXCEPT ![i] = @ + 1]
    /\ EndProcess(i, "aborted", ExitPanic, SpawnDiag, lastEvent[i])
    /\ UNCHANGED <<resources, core, guard, child, service, kills, killErrs, terminated>>

\* Variant of SetupOk: the spawn is retried once more before the Child is
\* stored, so two service processes are created.
SetupOk_SpawnsTwice(i) ==
    /\ pc[i] = "init"
    /\ ResolveCore(resources) # "none"
    /\ cmdline' = [cmdline EXCEPT ![i] = <<ResolveCore(resources)>> \o ServiceArgs]
    /\ spawns' = [spawns EXCEPT ![i] = @ + 2]
    /\ service' = [service EXCEPT ![i] = "running"]
    /\ core' = [core EXCEPT ![i] = "Some"]
    /\ pc' = [pc EXCEPT ![i] = "running"]
    /\ \E v \in BOOLEAN : window' = [window EXCEPT ![i] = InitialWindow(v)]
    /\ UNCHANGED <<resources, lockOwner, forwarded, guard, child, kills, killErrs,
                   terminated, lastEvent, exitCode, diag>>

\* Variant of SetupOk: the Child is spawned but never stored in CoreProcess
\* (line 51 left out).
SetupOk_DropsHandle(i) ==
    /\ pc[i] = "init"
    /\ ResolveCore(resources) # "none"
    /\ cmdline' = [cmdline EXCEPT ![i] = <<ResolveCore(resources)>> \o ServiceArgs]
    /\ spawns' = [spawns EXCEPT ![i] = @ + 1]
    /\ service' = [service EXCEPT ![i] = "running"]
    /\ pc' = [pc EXCEPT ![i] = "running"]
    /\ \E v \in BOOLEAN : window' = [window EXCEPT ![i] = InitialWindow(v)]
    /\ UNCHANGED <<resources, lockOwner, forwarded, core, guard, child, kills, killErrs,
                   terminated, lastEvent, exitCode, diag>>

\* cmd.spawn() returns the Child, which setup stores; the event loop runs.
SetupOk(i) ==
    /\ pc[i] = "init"
    /\ ResolveCore(resources) # "none"
    /\ cmdline' = [cmdline EXCEPT ![i] = <<ResolveCore(resources)>> \o ServiceArgs]
    /\ spawns' = [spawns EXCEPT ![i] = @ + 1]
    /\ service' = [service EXCEPT ![i] = "running"]
    /\ core' = [core EXCEPT ![i] = "Some"]
    /\ pc' = [pc EXCEPT ![i] = "running"]
    /\ \E v \in BOOLEAN : window' = [window EXCEPT ![i] = InitialWindow(v)]
    /\ UNCHANGED <<resources, lockOwner, forwarded, guard, child, kills, killErrs,
                   terminated, lastEvent, exitCode, diag>>

Setup(i) == SetupResolveFail(i) \/ SetupSpawnFail(i) \/ SetupOk(i)

\* ------------------------------------------------------- window handlers
\* The event loop of launch i is between two handlers.
Idle(i) == pc[i] = "running"

ShowFocus(w) == SetFocus(Show(w))

ShowUnminimizeFocus(w) == SetFocus(Unminimize(Show(w)))

\* get_window("main").unwrap() followed by window commands, each unwrapped:
\* a missing window or an Err panics, otherwise the commands take effect and
\* leave the window as w.
\* fwd is the number of undelivered invocations once the handler has run.
WindowCommands(i, ev, w, r, fwd) ==
    IF window[i].exists /\ r = "ok"
    THEN /\ window' = [window EXCEPT ![i] = w]
         /\ lastEvent' = [lastEvent EXCEPT ![i] = ev]
         /\ forwarded' = fwd
         /\ UNCHANGED <<resources, lockOwner, pc, procVars, exitCode, diag>>
    ELSE Panic(i, UnwrapDiag, ev)

\* tauri_plugin_single_instance::init(|app, argv, cwd| ...)
SingleInstanceCallback(i) ==
    /\ Idle(i)
    /\ lockOwner = i
    /\ forwarded > 0
    /\ \E r \in CmdResults :
         WindowCommands(i, "activation", ShowUnminimizeFocus(window[i]), r, forwarded - 1)

\* Variant of TrayLeftClick: the window is shown but set_focus is left out.
TrayLeftClick_NoFocus(i) ==
    /\ Idle(i)
    /\ \E r \in CmdResults : WindowCommands(i, "LeftClick", Show(window[i]), r, forwarded)

\* SystemTrayEvent::LeftClick
TrayLeftClick(i) ==
    /\ Idle(i)
    /\ \E r \in CmdResults : WindowCommands(i, "LeftClick", ShowFocus(window[i]), r, forwarded)

\* SystemTrayEvent::MenuItemClick, id "hide"
TrayMenuHide(i) ==
    /\ Idle(i)
    /\ \E r \in CmdResults : WindowCommands(i, "hide", Hide(window[i]), r, forwarded)

\* Variant of CloseRequested: closing the window also shuts the service
\* down (the handle is taken and killed) before the window is hidden.
CloseRequested_KillsCore(i) ==
    /\ Idle(i)
    /\ window[i].exists
    /\ core' = [core EXCEPT ![i] = "None"]
    /\ kills' = [kills EXCEPT ![i] = IF core[i] = "Some" THEN @ + 1 ELSE @]
    /\ service' = [service EXCEPT ![i] =
                     IF core[i] = "Some" /\ @ = "running" THEN "killed" ELSE @]
    /\ window' = [window EXCEPT ![i] = Hide(window[i])]
    /\ lastEvent' = [lastEvent EXCEPT ![i] = "CloseRequested"]
    /\ UNCHANGED <<resources, lockOwner, forwarded, pc, guard, child, cmdline, spawns,
                   killErrs, terminated, exitCode, diag>>

\* WindowEvent::CloseRequested: event.window().hide().unwrap(), then
\* api.prevent_close(), so the window is hidden and not destroyed.
CloseRequested(i) ==
    /\ Idle(i)
    /\ window[i].exists
    /\ \E r \in CmdResults : WindowCommands(i, "CloseRequested", Hide(window[i]), r, forwarded)

\* An event no arm handles: the handler returns at once.
Ignored(i, ev) ==
    /\ Idle(i)
    /\ lastEvent' = [lastEvent EXCEPT ![i] = ev]
    /\ UNCHANGED <<resources, lockOwner, forwarded, pc, procVars, window, exitCode, diag>>

\* Variant of TrayMenuOther: an unknown id falls into the "hide" arm.
TrayMenuOther_Hides(i) ==
    /\ Idle(i)
    /\ \E r \in CmdResults : WindowCommands(i, "other_menu", Hide(window[i]), r, forwarded)

\* SystemTrayEvent::MenuItemClick with an id other than "quit" and "hide"
TrayMenuOther(i) == Ignored(i, "other_menu")

\* a SystemTrayEvent other than LeftClick and MenuItemClick
TrayOther(i) == Ignored(i, "other_tray")

\* a WindowEvent other than CloseRequested
WindowOther(i) == Ignored(i, "other_window")

\* ----------------------------------------------------------- quit handler
\* Variant of QuitTake: the handle is borrowed (as_mut) instead of taken, so
\* the stored Option stays Some.
QuitTake_Borrows(i) ==
    /\ Idle(i)
    /\ ~guard[i]
    /\ guard' = [guard EXCEPT ![i] = TRUE]
    /\ child' = [child EXCEPT ![i] = core[i]]
    /\ pc' = [pc EXCEPT ![i] = "quit_locked"]
    /\ lastEvent' = [lastEvent EXCEPT ![i] = "quit"]
    /\ UNCHANGED <<resources, lockOwner, forwarded, core, service, cmdline, spawns,
                   kills, killErrs, terminated, window, exitCode, diag>>

\* Variant of QuitTake: the Option is taken without waiting for the lock
\* (as with an unsynchronised cell instead of the Mutex).
QuitTake_NoLock(i) ==
    /\ Idle(i)
    /\ guard' = [guard EXCEPT ![i] = TRUE]
    /\ child' = [child EXCEPT ![i] = core[i]]
    /\ core' = [core EXCEPT ![i] = "None"]
    /\ pc' = [pc EXCEPT ![i] = "quit_locked"]
    /\ lastEvent' = [lastEvent EXCEPT ![i] = "quit"]
    /\ UNCHANGED <<resources, lockOwner, forwarded, service, cmdline, spawns, kills,
                   killErrs, terminated, window, exitCode, diag>>

\* app.state::<CoreProcess>().0.lock().unwrap().take(): the guard is a
\* temporary of the if-let and lives to the end of its block.
QuitTake(i) ==
    /\ Idle(i)
    /\ ~guard[i]
    /\ guard' = [guard EXCEPT ![i] = TRUE]
    /\ child' = [child EXCEPT ![i] = core[i]]
    /\ core' = [core EXCEPT ![i] = "None"]
    /\ pc' = [pc EXCEPT ![i] = "quit_locked"]
    /\ lastEvent' = [lastEvent EXCEPT ![i] = "quit"]
    /\ UNCHANGED <<resources, lockOwner, forwarded, service, cmdline, spawns, kills,
                   killErrs, terminated, window, exitCode, diag>>

\* Variant of QuitKill: std::process::exit(0) is reached without the kill.
QuitKill_ExitFirst(i) ==
    /\ pc[i] = "quit_locked"
    /\ child' = [child EXCEPT ![i] = "None"]
    /\ guard' = [guard EXCEPT ![i] = FALSE]
    /\ terminated' = [terminated EXCEPT ![i] = @ + 1]
    /\ EndProcess(i, "exited", ExitOk, diag[i], lastEvent[i])
    /\ UNCHANGED <<resources, core, service, cmdline, spawns, kills, killErrs>>

\* let _ = child.kill(): the result is discarded.  A kill that returns Ok
\* ends a running service; the block ends, dropping child and the guard.
QuitKill(i) ==
    /\ pc[i] = "quit_locked"
    /\ IF child[i] = "Some"
       THEN \E r \in CmdResults :
              /\ kills' = [kills EXCEPT ![i] = @ + 1]
              /\ killErrs' = [killErrs EXCEPT ![i] = IF r = "err" THEN @ + 1 ELSE @]
              /\ service' = [service EXCEPT ![i] =
                               IF r = "ok" /\ @ = "running" THEN "killed" ELSE @]
       ELSE UNCHANGED <<kills, killErrs, service>>
    /\ child' = [child EXCEPT ![i] = "None"]
    /\ guard' = [guard EXCEPT ![i] = FALSE]
    /\ terminated' = [terminated EXCEPT ![i] = @ + 1]
    /\ pc' = [pc EXCEPT ![i] = "quit_unlocked"]
    /\ UNCHANGED <<resources, lockOwner, forwarded, core, cmdline, spawns, window,
                   lastEvent, exitCode, diag>>

\* std::process::exit(0)
QuitExit(i) ==
    /\ pc[i] = "quit_unlocked"
    /\ EndProcess(i, "exited", ExitOk, diag[i], lastEvent[i])
    /\ UNCHANGED <<resources, procVars>>

\* ------------------------------------------------------------ environment
\* The service is spawned and never waited on: it may end by itself, and
\* the shell does not notice.
ServiceExits(i) ==
    /\ service[i] = "running"
    /\ service' = [service EXCEPT ![i] = "exited"]
    /\ UNCHANGED <<resources, lockOwner, forwarded, pc, core, guard, child, cmdline,
                   spawns, kills, killErrs, terminated, window, lastEvent, exitCode,
                   diag>>

\* The user minimizes the visible window (what unminimize() undoes).
UserMinimize(i) ==
    /\ Idle(i)
    /\ window[i].exists /\ window[i].visible /\ ~window[i].minimized
    /\ window' = [window EXCEPT ![i] = [@ EXCEPT !.minimized = TRUE, !.focused = FALSE]]
    /\ UNCHANGED <<resources, lockOwner, forwarded, pc, procVars, lastEvent, exitCode,
                   diag>>

\* ------------------------------------------------------- scenario history
\* The steps of one run of the application from launch to exit: setup
\* succeeds, the window is closed, the tray icon is clicked, "quit" is
\* selected (take, kill, exit).
Scenario == <<"launch", "start", "CloseRequested", "LeftClick", "quit", "kill", "exit">>

Off == <<"off">>

\* Launch i takes the step ev: the history grows while it is a prefix of
\* Scenario and is Off from the first step that departs from it.
Observe(i, ev) ==
    LET t == Append(scenario[i], ev)
    IN  scenario' = [scenario EXCEPT ![i] =
                       IF Len(t) <= Len(Scenario) /\ t = SubSeq(Scenario, 1, Len(t))
                       THEN t ELSE Off]

\* A step of the program proper: the second context takes no part in it.
Seen(i, ev) == Observe(i, ev) /\ UNCHANGED hookVars

\* ---------------------------------------------------------- specification
Next ==
    \E i \in Launches :
        \/ LaunchPrimary(i) /\ Seen(i, "launch")
        \/ LaunchSecondary(i) /\ Seen(i, "forward")
        \/ SetupResolveFail(i) /\ Seen(i, "abort")
        \/ SetupSpawnFail(i) /\ Seen(i, "abort")
        \/ SetupOk(i) /\ Seen(i, "start")
        \/ SingleInstanceCallback(i) /\ Seen(i, "activation")
        \/ TrayLeftClick(i) /\ Seen(i, "LeftClick")
        \/ TrayMenuHide(i) /\ Seen(i, "hide")
        \/ TrayMenuOther(i) /\ Seen(i, "other_menu")
        \/ TrayOther(i) /\ Seen(i, "other_tray")
        \/ CloseRequested(i) /\ Seen(i, "CloseRequested")
        \/ WindowOther(i) /\ Seen(i, "other_window")
        \/ QuitTake(i) /\ Seen(i, "quit")
        \/ QuitKill(i) /\ Seen(i, "kill")
        \/ QuitExit(i) /\ Seen(i, "exit")
        \/ ServiceExits(i) /\ Seen(i, "service_exits")
        \/ UserMinimize(i) /\ Seen(i, "minimize")

Spec == Init /\ [][Next]_vars

\* ------------------------------------------- terminate(), called repeatedly
\* The take-and-kill step of the quit handler as an operation of its own:
\* control returns to the event loop instead of reaching exit(0), so that
\* the step can run again on the handle it left behind.
TerminateAgain(i) ==
    /\ pc[i] = "quit_unlocked"
    /\ terminated[i] < MaxTerminateCalls
    /\ pc' = [pc EXCEPT ![i] = "running"]
    /\ UNCHANGED <<resources, lockOwner, forwarded, procVars, window, lastEvent,
                   exitCode, diag>>

\* A step that is no part of the scenario and not one of the second context.
Aside == UNCHANGED <<scenario, hookVars>>

NextTerminate ==
    \E i \in Launches :
        \/ LaunchPrimary(i) /\ Aside
        \/ LaunchSecondary(i) /\ Aside
        \/ SetupResolveFail(i) /\ Aside
        \/ SetupSpawnFail(i) /\ Aside
        \/ SetupOk(i) /\ Aside
        \/ SingleInstanceCallback(i) /\ Aside
        \/ TrayLeftClick(i) /\ Aside
        \/ TrayMenuHide(i) /\ Aside
        \/ CloseRequested(i) /\ Aside
        \/ QuitTake(i) /\ Aside
        \/ QuitKill(i) /\ Aside
        \/ TerminateAgain(i) /\ Aside
        \/ ServiceExits(i) /\ Aside
        \/ UserMinimize(i) /\ Aside

SpecTerminate == Init /\ [][NextTerminate]_vars

\* ------------------------------- the take-and-kill block, run concurrently
\* A second context of the same process (a shutdown hook on another thread)
\* runs the block of the quit handler on the same CoreProcess:
\*   if let Some(mut child) = state.0.lock().unwrap().take() { let _ = child.kill(); }
\* in the steps lock, take (a read of the Option, then the write of None),
\* kill and unlock.
HookFrame ==
    UNCHANGED <<resources, lockOwner, forwarded, pc, child, cmdline, spawns, window,
                lastEvent, exitCode, diag, scenario>>

\* Mutex::lock: blocks while another guard is alive
HookLock(i) ==
    /\ pc[i] \in {"running", "quit_locked", "quit_unlocked"}
    /\ hookPc[i] = "idle"
    /\ ~guard[i]
    /\ guard' = [guard EXCEPT ![i] = TRUE]
    /\ hookPc' = [hookPc EXCEPT ![i] = "locked"]
    /\ HookFrame /\ UNCHANGED <<core, hookChild, service, kills, killErrs, terminated>>

\* Option::take, first half: read the stored value
HookRead(i) ==
    /\ pc[i] \in {"running", "quit_locked", "quit_unlocked"}
    /\ hookPc[i] = "locked"
    /\ hookChild' = [hookChild EXCEPT ![i] = core[i]]
    /\ hookPc' = [hookPc EXCEPT ![i] = "read"]
    /\ HookFrame /\ UNCHANGED <<core, guard, service, kills, killErrs, terminated>>

\* Option::take, second half: leave None behind
HookWrite(i) ==
    /\ pc[i] \in {"running", "quit_locked", "quit_unlocked"}
    /\ hookPc[i] = "read"
    /\ core' = [core EXCEPT ![i] = "None"]
    /\ hookPc' = [hookPc EXCEPT ![i] = "taken"]
    /\ HookFrame /\ UNCHANGED <<guard, hookChild, service, kills, killErrs, terminated>>

\* let _ = child.kill() if a handle was read; the block ends and drops the
\* child and the guard
HookKill(i) ==
    /\ pc[i] \in {"running", "quit_locked", "quit_unlocked"}
    /\ hookPc[i] = "taken"
    /\ IF hookChild[i] = "Some"
       THEN \E r \in CmdResults :
              /\ kills' = [kills EXCEPT ![i] = @ + 1]
              /\ killErrs' = [killErrs EXCEPT ![i] = IF r = "err" THEN @ + 1 ELSE @]
              /\ service' = [service EXCEPT ![i] =
                               IF r = "ok" /\ @ = "running" THEN "killed" ELSE @]
       ELSE UNCHANGED <<kills, killErrs, service>>
    /\ hookChild' = [hookChild EXCEPT ![i] = "None"]
    /\ guard' = [guard EXCEPT ![i] = FALSE]
    /\ terminated' = [terminated EXCEPT ![i] = @ + 1]
    /\ hookPc' = [hookPc EXCEPT ![i] = "done"]
    /\ HookFrame /\ UNCHANGED core

NextHook ==
    \E i \in Launches :
        \/ LaunchPrimary(i) /\ Aside
        \/ LaunchSecondary(i) /\ Aside
        \/ SetupResolveFail(i) /\ Aside
        \/ SetupSpawnFail(i) /\ Aside
        \/ SetupOk(i) /\ Aside
        \/ TrayLeftClick(i) /\ Aside
        \/ CloseRequested(i) /\ Aside
        \/ QuitTake(i) /\ Aside
        \/ QuitKill(i) /\ Aside
        \/ QuitExit(i) /\ Aside
        \/ ServiceExits(i) /\ Aside
        \/ HookLock(i)
        \/ HookRead(i)
        \/ HookWrite(i)
        \/ HookKill(i)

SpecHook == Init /\ [][NextHook]_vars

\* ------------------------------------------------------------------ claims
Live == {"running", "quit_locked", "quit_unlocked"}

Ended == {"exited", "aborted"}

\* C1: once the take-and-kill step has run at least once, exactly one kill
\* has been issued and the stored handle is None, however often the step
\* runs again; at no time has more than one kill been issued.
C1_TerminateIdempotent ==
    \A i \in Launches :
        /\ kills[i] <= 1
        /\ terminated[i] >= 1 => (kills[i] = 1 /\ core[i] = "None")

C1_Witness ==
    \E i \in Launches :
        terminated[i] >= 2 /\ kills[i] = 1 /\ core[i] = "None" /\ pc[i] = "running"

\* C2: a started application exits with status 0 only from the end of the
\* quit handler: the handle has been taken (None), the kill of the stored
\* handle has been issued, and the lock is released before exit(0).
C2_TerminateThenExit ==
    [][\A i \in Launches :
         (pc[i] \in Live /\ pc'[i] = "exited") =>
            /\ pc[i] = "quit_unlocked"
            /\ lastEvent[i] = "quit"
            /\ core[i] = "None" /\ child[i] = "None" /\ ~guard[i]
            /\ kills[i] = 1 /\ terminated[i] = 1
            /\ core'[i] = "None" /\ kills'[i] = 1
            /\ exitCode'[i] = ExitOk]_vars

C2_Witness ==
    \E i \in Launches :
        /\ pc[i] = "exited" /\ lastEvent[i] = "quit" /\ exitCode[i] = ExitOk
        /\ kills[i] = 1 /\ core[i] = "None" /\ service[i] = "killed"

\* C3: a process whose startup succeeded ends only at the end of the quit
\* handler; no other handler ends it.
C3_QuitOnlyExit ==
    [][\A i \in Launches :
         (pc[i] \in Live /\ pc'[i] \in Ended) =>
            (pc[i] = "quit_unlocked" /\ lastEvent[i] = "quit")]_vars

\* C4: as long as "quit" has not been selected, whatever close requests,
\* tray clicks and activations were handled, no kill has been issued to the
\* spawned service and, while the application runs, the stored handle is
\* Some (and nobody holds the lock or a taken handle).
C4_CloseKeepsService ==
    \A i \in Launches :
        (service[i] # "none" /\ lastEvent[i] # "quit") =>
            /\ kills[i] = 0 /\ killErrs[i] = 0 /\ service[i] # "killed"
            /\ pc[i] = "running" => (core[i] = "Some" /\ child[i] = "None" /\ ~guard[i])

C4_Witness ==
    \E i \in Launches :
        /\ pc[i] = "running" /\ lastEvent[i] = "CloseRequested"
        /\ window[i].exists /\ ~window[i].visible
        /\ core[i] = "Some" /\ service[i] = "running" /\ kills[i] = 0

\* C5: every CloseRequested leaves the application running with its window
\* still there and Hidden.
C5_CloseAlwaysHides ==
    [][\A i \in Launches :
         CloseRequested(i) =>
            (pc'[i] = "running" /\ window'[i].exists /\ ~window'[i].visible)]_vars

\* C6: every tray LeftClick leaves the window Visible and focused and every
\* tray "hide" leaves it Hidden, whatever it was before.
C6_LastActionWins ==
    [][\A i \in Launches :
         /\ TrayLeftClick(i) =>
              (window'[i].exists /\ window'[i].visible /\ window'[i].focused)
         /\ TrayMenuHide(i) => (window'[i].exists /\ ~window'[i].visible)]_vars

\* C7: every delivered activation leaves the primary window Visible,
\* un-minimized and focused, and changes nothing when it already was.
C7_ActivationShows ==
    [][\A i \in Launches :
         SingleInstanceCallback(i) =>
            /\ window'[i].exists /\ window'[i].visible
            /\ ~window'[i].minimized /\ window'[i].focused
            /\ (window[i].visible /\ ~window[i].minimized /\ window[i].focused)
                  => window'[i] = window[i]]_vars

RunningServices == {i \in Launches : service[i] = "running"}

\* C8: at most one service process spawned by the application is running
\* at any moment, over all launches.
C8_OneServiceSystemWide == Cardinality(RunningServices) <= 1

StartupFailed(i) == pc[i] = "aborted" /\ diag[i] \in {ResolveDiag, SpawnDiag}

C10_HandleLifecycle ==
    /\ [](\A i \in Launches :
            /\ spawns[i] <= 1
            /\ pc[i] = "running" => core[i] = "Some"
            /\ (pc[i] \in {"quit_locked", "quit_unlocked"}
                  \/ (pc[i] = "exited" /\ lastEvent[i] = "quit")) => core[i] = "None")
    /\ [][\A i \in Launches :
            (core[i] = "None" /\ core'[i] = "Some") =>
               (pc[i] = "init" /\ terminated[i] = 0 /\ spawns[i] = 0)]_vars

C10_Witness ==
    \E i \in Launches :
        /\ pc[i] = "exited" /\ lastEvent[i] = "quit"
        /\ core[i] = "None" /\ spawns[i] = 1 /\ terminated[i] = 1

\* Number of steps of Scenario that launch i has taken, 0 once it left it.
Stage(i) == IF scenario[i] = Off THEN 0 ELSE Len(scenario[i])

\* C11: a launch whose steps so far are those of the scenario, and which
\* has not aborted, is where the scenario says: after start the service runs
\* with its handle stored and no kill issued; after the close the window is
\* Hidden; after the LeftClick it is Visible and focused; the quit handler
\* issues exactly one kill, and the process exits with status 0.  (That the
\* scenario is a behaviour is C11_Witness: its last state is reached.)
C11_ScenarioOutcome ==
    \A i \in Launches :
        pc[i] # "aborted" =>
            /\ Stage(i) \in 2..4 =>
                 /\ pc[i] = "running" /\ window[i].exists
                 /\ service[i] = "running" /\ core[i] = "Some" /\ kills[i] = 0
            /\ Stage(i) = 3 => (~window[i].visible /\ ~window[i].focused)
            /\ Stage(i) = 4 => (window[i].visible /\ window[i].focused)
            /\ Stage(i) = 5 => (pc[i] = "quit_locked" /\ child[i] = "Some" /\ kills[i] = 0)
            /\ Stage(i) = 6 => (pc[i] = "quit_unlocked" /\ kills[i] = 1)
            /\ Stage(i) = 7 =>
                 /\ pc[i] = "exited" /\ exitCode[i] = ExitOk
                 /\ kills[i] = 1 /\ core[i] = "None"

C11_Witness ==
    \E i \in Launches :
        /\ scenario[i] = Scenario
        /\ pc[i] = "exited" /\ exitCode[i] = ExitOk
        /\ kills[i] = 1 /\ service[i] = "killed"

\* C12: the window and tray handlers and the activation callback leave the
\* stored handle (and the lock and the taken handle) as they are, and
\* "hide" changes the window to Hidden and nothing else of the program.
C12_HandlersFrame ==
    [][\A i \in Launches :
         /\ (SingleInstanceCallback(i) \/ TrayLeftClick(i) \/ TrayMenuHide(i)
               \/ CloseRequested(i) \/ TrayMenuOther(i) \/ TrayOther(i))
              => (core'[i] = core[i] /\ child'[i] = child[i] /\ guard'[i] = guard[i])
         /\ TrayMenuHide(i) =>
              /\ window'[i] = Hide(window[i])
              /\ UNCHANGED <<pc, procVars, lockOwner, forwarded, exitCode, diag>>]_vars

HookInBlock(i) == hookPc[i] \in {"locked", "read", "taken"}

\* C13: with the quit handler and a second context both running the
\* take-and-kill block, at most one of them holds a taken handle and at
\* most one kill is issued; the lock is held exactly while one of them is
\* inside its block, never by both; and the quit handler has left its block
\* (its guard dropped) when it exits the process.
C13_AtomicTake ==
    /\ [](\A i \in Launches :
            /\ kills[i] <= 1
            /\ ~(child[i] = "Some" /\ hookChild[i] = "Some")
            /\ ~(pc[i] = "quit_locked" /\ HookInBlock(i))
            /\ guard[i] <=> (pc[i] = "quit_locked" \/ HookInBlock(i))
            /\ (terminated[i] >= 1 /\ service[i] # "none") => kills[i] = 1)
    /\ [][\A i \in Launches :
            (pc[i] \in Live /\ pc'[i] = "exited") =>
               (pc[i] = "quit_unlocked" /\ child[i] = "None" /\ kills[i] = 1)]_vars

C13_Witness ==
    \E i \in Launches :
        /\ hookPc[i] = "done" /\ pc[i] = "exited"
        /\ terminated[i] = 2 /\ kills[i] = 1 /\ core[i] = "None" /\ ~guard[i]

\* C14: whenever the process of a launch that spawned the service ends, a
\* kill has been issued to that service.
C14_NoExitWithoutKill ==
    [][\A i \in Launches :
         (pc[i] \notin Ended /\ pc'[i] \in Ended /\ service[i] # "none")
            => kills'[i] >= 1]_vars

C16_WindowFailureNonFatal ==
    [][\A i \in Launches :
         (SingleInstanceCallback(i) \/ TrayLeftClick(i) \/ TrayMenuHide(i)
            \/ CloseRequested(i))
           => (pc'[i] = "running" /\ exitCode'[i] = NoExit /\ core'[i] = core[i])]_vars

\* C17: a kill that returns Err while the service is still running is not
\* ignored: the step that gets it aborts the application with a diagnostic.
C17_NoSwallowedError ==
    [][\A i \in Launches :
         (killErrs'[i] > killErrs[i] /\ service[i] = "running")
            => (pc'[i] = "aborted" /\ diag'[i] # NoDiag)]_vars

\* C18: a tray menu click with an unknown id and a tray event of another
\* kind change nothing of the program: window, stored handle, service,
\* position and exit status of every launch stay as they are.
C18_UnknownTrayEventNoOp ==
    [][\A i \in Launches :
         (TrayMenuOther(i) \/ TrayOther(i)) =>
            UNCHANGED <<window, pc, procVars, lockOwner, forwarded, exitCode, diag>>]_vars

C18_Witness ==
    \E i \in Launches :
        /\ pc[i] = "running" /\ lastEvent[i] = "other_menu"
        /\ window[i].visible /\ core[i] = "Some" /\ service[i] = "running"

\* C19: every spawn attempt runs "bin/aetherd" when that name resolves and
\* "bin/aetherd.exe" only when it alone resolves, with the arguments
\* --api 127.0.0.1:9880; when neither resolves the launch makes no spawn
\* attempt and never gets past setup.
C19_ResolutionOrder ==
    \A i \in Launches :
        /\ spawns[i] > 0 =>
             /\ resources # {}
             /\ cmdline[i] = <<IF "bin/aetherd" \in resources
                                THEN "bin/aetherd" ELSE "bin/aetherd.exe">>
                              \o <<"--api", "127.0.0.1:9880">>
        /\ spawns[i] = 0 => cmdline[i] = <<>>
        /\ resources = {} =>
             /\ spawns[i] = 0 /\ service[i] = "none" /\ pc[i] \notin Live
             /\ pc[i] = "aborted" => diag[i] = ResolveDiag

C19_Witness ==
    \E i \in Launches :
        /\ resources = {"bin/aetherd.exe"}
        /\ cmdline[i] = <<"bin/aetherd.exe", "--api", "127.0.0.1:9880">>
        /\ service[i] = "running" /\ core[i] = "Some"

=============================================================================
